---- MODULE Spec2Model ----
(***************************************************************************)
(* Model of the hardware-adaptive configuration layer of dolphin-thor:     *)
(*   Source/Android/jni/AndroidCommon/CpuAffinity.cpp   (CPU topology and  *)
(*       per-thread affinity), specification Spec;                         *)
(*   Source/Core/VideoBackends/Vulkan/AdrenoOptimizations.cpp (GPU         *)
(*       detection and tuning values), specification SpecGpu.              *)
(* C strings are sequences of one-character strings, so that strstr is a   *)
(* real case-sensitive substring search.                                   *)
(***************************************************************************)
EXTENDS Integers, Sequences, FiniteSets, TLC

VARIABLES
    soc_model,          \* value of the property ro.soc.model
    soc_manufacturer,   \* value of the property ro.soc.manufacturer
    nproc,              \* sysconf(_SC_NPROCESSORS_CONF)
    handle,             \* per thread: pthread_self() converted to pid_t
    g_topology,         \* the process-wide CpuTopology
    affinity,           \* OS scheduler state: per thread, its CPU mask
    lastCall,           \* history: what the last role call did
    device_name,        \* GPU side: adapter name (may be the null pointer)
    vendor_id,
    device_id,
    gpc,                \* GPU side: which results have been computed
    adreno740,          \* result of IsAdreno740
    has_turnip,         \* result of IsTurnipDriver
    extensions,         \* result of GetOptimalExtensions(has_turnip)
    pipeline_cache_size,
    descriptor_pool_sizes

cpuVars == <<soc_model, soc_manufacturer, nproc, handle, g_topology, affinity, lastCall>>
gpuVars == <<device_name, vendor_id, device_id, gpc, adreno740, has_turnip,
             extensions, pipeline_cache_size, descriptor_pool_sizes>>
vars == <<soc_model, soc_manufacturer, nproc, handle, g_topology, affinity, lastCall,
          device_name, vendor_id, device_id, gpc, adreno740, has_turnip,
          extensions, pipeline_cache_size, descriptor_pool_sizes>>

----------------------------------------------------------------------------
(* Bounds *)

\* largest core count the OS reports in the model
MaxCores == 9
\* pid values 1..MaxPid; the threads have tids 1..3, larger values name no thread
MaxPid == 4

----------------------------------------------------------------------------
(* C strings *)

nullptr == 0

\* strstr: index (from 1) of the first occurrence of needle in haystack, or nullptr
strstr(haystack, needle) ==
    LET hits == {i \in 1..(Len(haystack) - Len(needle) + 1) :
                    SubSeq(haystack, i, i + Len(needle) - 1) = needle}
    IN  IF hits = {} THEN nullptr ELSE CHOOSE i \in hits : \A j \in hits : i <= j

S_SM8550 == <<"S","M","8","5","5","0">>
S_kalama == <<"k","a","l","a","m","a">>
S_Qualcomm == <<"Q","u","a","l","c","o","m","m">>
S_QTI == <<"Q","T","I">>

\* values the property store may hold for ro.soc.model ("" when the property is unset)
SocModels ==
    { S_SM8550,
      <<"q","c","-">> \o S_kalama \o <<"-","v","2">>,
      <<"s","m","8","5","5","0">>,
      <<"S","M","8","5","5">>,
      <<>> }

\* values the property store may hold for ro.soc.manufacturer
SocManufacturers ==
    { S_Qualcomm \o <<" ","I","n","c">>,
      S_QTI,
      <<"q","u","a","l","c","o","m","m">>,
      <<"Q","T">>,
      <<>> }

----------------------------------------------------------------------------
(* CPU topology *)

\* the emulator threads, named after the role function each one calls for itself
Threads == {"PowerPC", "GPU", "Audio"}

\* kernel thread id of each thread (what gettid() would return)
Tid(t) == CASE t = "PowerPC" -> 1
            [] t = "GPU" -> 2
            [] t = "Audio" -> 3

PidValues == 1..MaxPid

CoreCounts == 1..MaxCores

\* struct CpuTopology with its default member initializers
CpuTopology ==
    [ is_snapdragon_8_gen_2 |-> FALSE,
      prime_core |-> -1,
      gold_cores_start |-> -1,
      gold_cores_end |-> -1,
      silver_cores_start |-> -1,
      silver_cores_end |-> -1,
      total_cores |-> 0 ]

DetectSnapdragon8Gen2Or(model, manufacturer) ==
    LET is_sm8550 == (strstr(model, S_SM8550) # nullptr \/ strstr(model, S_kalama) # nullptr)
        is_qualcomm == (strstr(manufacturer, S_Qualcomm) # nullptr
                        \/ strstr(manufacturer, S_QTI) # nullptr)
    IN  is_sm8550 \/ is_qualcomm

DetectSnapdragon8Gen2(model, manufacturer) ==
    LET is_sm8550 == (strstr(model, S_SM8550) # nullptr \/ strstr(model, S_kalama) # nullptr)
        is_qualcomm == (strstr(manufacturer, S_Qualcomm) # nullptr
                        \/ strstr(manufacturer, S_QTI) # nullptr)
    IN  is_sm8550 /\ is_qualcomm

InitializeCpuTopologyShifted(topo, cores, model, manufacturer) ==
    LET t1 == [topo EXCEPT !.total_cores = cores]
    IN  IF DetectSnapdragon8Gen2(model, manufacturer)
        THEN [t1 EXCEPT !.is_snapdragon_8_gen_2 = TRUE,
                        !.prime_core = 0,
                        !.gold_cores_start = 0,
                        !.gold_cores_end = 3,
                        !.silver_cores_start = 4,
                        !.silver_cores_end = 7]
        ELSE t1

InitializeCpuTopologyUnflagged(topo, cores, model, manufacturer) ==
    LET t1 == [topo EXCEPT !.total_cores = cores,
                           !.prime_core = 0,
                           !.gold_cores_start = 1,
                           !.gold_cores_end = 4,
                           !.silver_cores_start = 5,
                           !.silver_cores_end = 7]
    IN  IF DetectSnapdragon8Gen2(model, manufacturer)
        THEN [t1 EXCEPT !.is_snapdragon_8_gen_2 = TRUE]
        ELSE t1

\* the value of g_topology after InitializeCpuTopology
InitializeCpuTopology(topo, cores, model, manufacturer) ==
    LET t1 == [topo EXCEPT !.total_cores = cores]
    IN  IF DetectSnapdragon8Gen2(model, manufacturer)
        THEN [t1 EXCEPT !.is_snapdragon_8_gen_2 = TRUE,
                        !.prime_core = 0,
                        !.gold_cores_start = 1,
                        !.gold_cores_end = 4,
                        !.silver_cores_start = 5,
                        !.silver_cores_end = 7]
        ELSE t1

----------------------------------------------------------------------------
(* The OS scheduler *)

\* CPUs the scheduler can run a thread on
OnlineCpus == 0..(nproc - 1)

\* sched_setaffinity(pid, sizeof(cpu_set_t), &cpuset) issued by thread caller:
\* pid 0 names the caller, another pid names the thread with that tid.
sched_setaffinity(caller, pid, cpuset, aff, permitted) ==
    LET target == IF pid = 0 THEN {caller} ELSE {t \in Threads : Tid(t) = pid}
    IN  IF target = {} THEN [result |-> -1, errno |-> "ESRCH", affinity |-> aff]
        ELSE IF ~permitted THEN [result |-> -1, errno |-> "EPERM", affinity |-> aff]
        ELSE IF cpuset \cap OnlineCpus = {}
             THEN [result |-> -1, errno |-> "EINVAL", affinity |-> aff]
        ELSE [result |-> 0, errno |-> "OK",
              affinity |-> [t \in Threads |->
                              IF t \in target THEN cpuset \cap OnlineCpus ELSE aff[t]]]

\* for (int i = first; i <= last; i++) v.push_back(i)
Range(first, last) == [k \in 1..(last - first + 1) |-> first + k - 1]

SeqToSet(s) == {s[k] : k \in 1..Len(s)}

SetThreadAffinityToCoresRetry(cores, caller, aff, permitted) ==
    IF cores = <<>>
    THEN [ret |-> FALSE, requests |-> <<>>, errnos |-> <<>>, affinity |-> aff]
    ELSE LET cpuset == {c \in SeqToSet(cores) : c >= 0 /\ c < g_topology.total_cores}
             current_thread == handle[caller]
             r == sched_setaffinity(caller, current_thread, cpuset, aff, permitted)
             r2 == sched_setaffinity(caller, 0, cpuset, aff, TRUE)
             req == [pid |-> current_thread, cpuset |-> cpuset]
         IN  IF r.result = 0
             THEN [ret |-> TRUE, requests |-> <<req>>, errnos |-> <<r.errno>>,
                   affinity |-> r.affinity]
             ELSE [ret |-> TRUE, requests |-> <<req, [req EXCEPT !.pid = 0]>>,
                   errnos |-> <<r.errno, r2.errno>>, affinity |-> r2.affinity]

SetThreadAffinityToCoresAlways(cores, caller, aff, permitted) ==
    LET cpuset == {c \in SeqToSet(cores) : c >= 0 /\ c < g_topology.total_cores}
        current_thread == handle[caller]
        r == sched_setaffinity(caller, current_thread, cpuset, aff, permitted)
    IN  [ret |-> (r.result = 0),
         requests |-> <<[pid |-> current_thread, cpuset |-> cpuset]>>,
         errnos |-> <<r.errno>>,
         affinity |-> r.affinity]

\* what SetThreadAffinityToCores(cores) does when thread caller runs it: its
\* return value, the OS requests it issues, their errno and the new OS state
SetThreadAffinityToCores(cores, caller, aff, permitted) ==
    IF cores = <<>>
    THEN [ret |-> FALSE, requests |-> <<>>, errnos |-> <<>>, affinity |-> aff]
    ELSE LET cpuset == {c \in SeqToSet(cores) : c >= 0 /\ c < g_topology.total_cores}
             current_thread == handle[caller]
             r == sched_setaffinity(caller, current_thread, cpuset, aff, permitted)
         IN  [ret |-> (r.result = 0),
              requests |-> <<[pid |-> current_thread, cpuset |-> cpuset]>>,
              errnos |-> <<r.errno>>,
              affinity |-> r.affinity]

----------------------------------------------------------------------------
(* The public functions *)

NoCall == [caller |-> "none", role |-> "none", entered |-> FALSE, plan |-> <<>>,
           ret |-> FALSE, requests |-> <<>>, errnos |-> <<>>]

\* a role function that returned before SetThreadAffinityToCores
Skipped(t, role) ==
    /\ lastCall' = [caller |-> t, role |-> role, entered |-> FALSE, plan |-> <<>>,
                    ret |-> FALSE, requests |-> <<>>, errnos |-> <<>>]
    /\ UNCHANGED affinity

\* a role function that called SetThreadAffinityToCores(cores)
Pinned(t, role, cores, permitted) ==
    LET a == SetThreadAffinityToCores(cores, t, affinity, permitted)
    IN  /\ lastCall' = [caller |-> t, role |-> role, entered |-> TRUE, plan |-> cores,
                        ret |-> a.ret, requests |-> a.requests, errnos |-> a.errnos]
        /\ affinity' = a.affinity

Initialize ==
    /\ g_topology' = InitializeCpuTopology(g_topology, nproc, soc_model, soc_manufacturer)
    /\ UNCHANGED <<soc_model, soc_manufacturer, nproc, handle, affinity, lastCall>>
    /\ UNCHANGED gpuVars

IsSnapdragon8Gen2 == g_topology.is_snapdragon_8_gen_2

SetPowerPCThreadAffinity(t) ==
    /\ t = "PowerPC"
    /\ IF ~g_topology.is_snapdragon_8_gen_2
       THEN Skipped(t, "PowerPC")
       ELSE \E permitted \in BOOLEAN :
              Pinned(t, "PowerPC",
                     Range(g_topology.gold_cores_start, g_topology.gold_cores_end),
                     permitted)
    /\ UNCHANGED <<soc_model, soc_manufacturer, nproc, handle, g_topology>>
    /\ UNCHANGED gpuVars

SetGPUThreadAffinity(t) ==
    /\ t = "GPU"
    /\ IF ~g_topology.is_snapdragon_8_gen_2
       THEN Skipped(t, "GPU")
       ELSE \E permitted \in BOOLEAN :
              Pinned(t, "GPU",
                     <<g_topology.prime_core>>
                        \o Range(g_topology.gold_cores_start, g_topology.gold_cores_end),
                     permitted)
    /\ UNCHANGED <<soc_model, soc_manufacturer, nproc, handle, g_topology>>
    /\ UNCHANGED gpuVars

SetAudioThreadAffinity(t) ==
    /\ t = "Audio"
    /\ IF ~g_topology.is_snapdragon_8_gen_2
       THEN Skipped(t, "Audio")
       ELSE \E permitted \in BOOLEAN :
              Pinned(t, "Audio",
                     Range(g_topology.silver_cores_start, g_topology.silver_cores_end),
                     permitted)
    /\ UNCHANGED <<soc_model, soc_manufacturer, nproc, handle, g_topology>>
    /\ UNCHANGED gpuVars

SetGenericThreadAffinity(t) ==
    /\ Skipped(t, "Generic")
    /\ UNCHANGED <<soc_model, soc_manufacturer, nproc, handle, g_topology>>
    /\ UNCHANGED gpuVars

----------------------------------------------------------------------------
(* GPU detection and tuning values *)

QUALCOMM_VENDOR_ID == 20803          \* 0x5143
ADRENO_740_ID_1 == 1124403713        \* 0x43050A01
ADRENO_740_ID_2 == 1124406273        \* 0x43051401

S_AdrenoTM740 == <<"A","d","r","e","n","o"," ","(","T","M",")"," ","7","4","0">>
S_Adreno740 == <<"A","d","r","e","n","o"," ","7","4","0">>
S_turnip == <<"t","u","r","n","i","p">>
S_Turnip == <<"T","u","r","n","i","p">>
S_Mesa == <<"M","e","s","a">>

\* a const char*: the null pointer, or a string
NullName == [isNull |-> TRUE, chars |-> <<>>]
Name(chars) == [isNull |-> FALSE, chars |-> chars]

\* adapter names the device enumeration may supply
DeviceNames ==
    { NullName,
      Name(<<>>),
      Name(S_AdrenoTM740),
      Name(S_Adreno740),
      Name(<<"a","d","r","e","n","o"," ","7","4","0">>),
      Name(<<"A","d","r","e","n","o"," ","(","T","M",")"," ","7","3","0">>),
      Name(S_Turnip \o <<" ">> \o S_AdrenoTM740),
      Name(S_Adreno740 \o <<" ","(">> \o S_turnip \o <<")">>),
      Name(S_Mesa \o <<" ","2","3">>),
      Name(<<"T","U","R","N","I","P">>),
      Name(<<"m","e","s","a"," ">> \o S_Adreno740) }

VendorIds == {QUALCOMM_VENDOR_ID, QUALCOMM_VENDOR_ID + 1, 0}

DeviceIds == {ADRENO_740_ID_1, ADRENO_740_ID_2, ADRENO_740_ID_1 + 1, 0}

IsAdreno740NoVendor(name, vendor, device) ==
    IF device = ADRENO_740_ID_1 \/ device = ADRENO_740_ID_2 THEN TRUE
    ELSE IF vendor # QUALCOMM_VENDOR_ID THEN FALSE
    ELSE IF ~name.isNull /\ (strstr(name.chars, S_AdrenoTM740) # nullptr
                             \/ strstr(name.chars, S_Adreno740) # nullptr) THEN TRUE
    ELSE FALSE

IsAdreno740(name, vendor, device) ==
    IF vendor # QUALCOMM_VENDOR_ID THEN FALSE
    ELSE IF device = ADRENO_740_ID_1 \/ device = ADRENO_740_ID_2 THEN TRUE
    ELSE IF ~name.isNull /\ (strstr(name.chars, S_AdrenoTM740) # nullptr
                             \/ strstr(name.chars, S_Adreno740) # nullptr) THEN TRUE
    ELSE FALSE

IsTurnipDriverNoMesa(name) ==
    IF name.isNull THEN FALSE
    ELSE (strstr(name.chars, S_turnip) # nullptr
          \/ strstr(name.chars, S_Turnip) # nullptr)

IsTurnipDriver(name) ==
    IF name.isNull THEN FALSE
    ELSE (strstr(name.chars, S_turnip) # nullptr
          \/ strstr(name.chars, S_Turnip) # nullptr
          \/ strstr(name.chars, S_Mesa) # nullptr)

GetOptimalExtensionsTurnip(turnip) ==
    << "VK_KHR_shader_non_semantic_info",
       "VK_EXT_scalar_block_layout",
       "VK_KHR_spirv_1_4",
       "VK_KHR_synchronization_2",
       "VK_EXT_memory_budget",
       "VK_EXT_memory_priority" >>
    \o (IF turnip THEN <<"VK_EXT_memory_priority">> ELSE <<>>)

\* the has_turnip branch only logs
GetOptimalExtensions(turnip) ==
    << "VK_KHR_shader_non_semantic_info",
       "VK_EXT_scalar_block_layout",
       "VK_KHR_spirv_1_4",
       "VK_KHR_synchronization_2",
       "VK_EXT_memory_budget",
       "VK_EXT_memory_priority" >>
    \o (IF turnip THEN <<>> ELSE <<>>)

GetOptimalPipelineCacheSize == 512 * 1024 * 1024

GetOptimalDescriptorPoolSizes ==
    [ uniform_buffers |-> 2048,
      combined_image_samplers |-> 8192,
      storage_buffers |-> 1024,
      uniform_texel_buffers |-> 256,
      max_sets |-> 16384 ]

\* DescriptorPoolSizes before GetOptimalDescriptorPoolSizes fills it
NoPoolSizes ==
    [ uniform_buffers |-> 0,
      combined_image_samplers |-> 0,
      storage_buffers |-> 0,
      uniform_texel_buffers |-> 0,
      max_sets |-> 0 ]

\* state before a graphics context asks for anything
GpuIdle ==
    /\ device_name = NullName
    /\ vendor_id = 0
    /\ device_id = 0
    /\ gpc = {}
    /\ adreno740 = FALSE
    /\ has_turnip = FALSE
    /\ extensions = <<>>
    /\ pipeline_cache_size = 0
    /\ descriptor_pool_sizes = NoPoolSizes

\* the graphics context calls IsAdreno740 on the enumerated device
DetectFamily ==
    /\ "family" \notin gpc
    /\ adreno740' = IsAdreno740(device_name, vendor_id, device_id)
    /\ gpc' = gpc \cup {"family"}
    /\ UNCHANGED <<device_name, vendor_id, device_id, has_turnip, extensions,
                   pipeline_cache_size, descriptor_pool_sizes>>
    /\ UNCHANGED cpuVars

\* the graphics context calls IsTurnipDriver on the enumerated device
DetectDriver ==
    /\ "driver" \notin gpc
    /\ has_turnip' = IsTurnipDriver(device_name)
    /\ gpc' = gpc \cup {"driver"}
    /\ UNCHANGED <<device_name, vendor_id, device_id, adreno740, extensions,
                   pipeline_cache_size, descriptor_pool_sizes>>
    /\ UNCHANGED cpuVars

\* GetOptimalExtensions(has_turnip) with the detected driver
BuildExtensions ==
    /\ "driver" \in gpc
    /\ "extensions" \notin gpc
    /\ extensions' = GetOptimalExtensions(has_turnip)
    /\ gpc' = gpc \cup {"extensions"}
    /\ UNCHANGED <<device_name, vendor_id, device_id, adreno740, has_turnip,
                   pipeline_cache_size, descriptor_pool_sizes>>
    /\ UNCHANGED cpuVars

BuildPipelineCache ==
    /\ "cache" \notin gpc
    /\ pipeline_cache_size' = GetOptimalPipelineCacheSize
    /\ gpc' = gpc \cup {"cache"}
    /\ UNCHANGED <<device_name, vendor_id, device_id, adreno740, has_turnip,
                   extensions, descriptor_pool_sizes>>
    /\ UNCHANGED cpuVars

BuildDescriptorPools ==
    /\ "pools" \notin gpc
    /\ descriptor_pool_sizes' = GetOptimalDescriptorPoolSizes
    /\ gpc' = gpc \cup {"pools"}
    /\ UNCHANGED <<device_name, vendor_id, device_id, adreno740, has_turnip,
                   extensions, pipeline_cache_size>>
    /\ UNCHANGED cpuVars

----------------------------------------------------------------------------
(* Specification of the CPU side *)

Init ==
    /\ soc_model \in SocModels
    /\ soc_manufacturer \in SocManufacturers
    /\ nproc \in CoreCounts
    /\ handle \in [Threads -> PidValues]
    /\ g_topology = CpuTopology
    /\ affinity = [t \in Threads |-> 0..(nproc - 1)]
    /\ lastCall = NoCall
    /\ GpuIdle

Next ==
    \/ Initialize
    \/ \E t \in Threads : SetPowerPCThreadAffinity(t)
    \/ \E t \in Threads : SetGPUThreadAffinity(t)
    \/ \E t \in Threads : SetAudioThreadAffinity(t)
    \/ \E t \in Threads : SetGenericThreadAffinity(t)

Spec == Init /\ [][Next]_vars

\* state of the CPU side while the GPU side is examined: nothing initialized
CpuIdle ==
    /\ soc_model = <<>>
    /\ soc_manufacturer = <<>>
    /\ nproc = 1
    /\ handle = [t \in Threads |-> Tid(t)]
    /\ g_topology = CpuTopology
    /\ affinity = [t \in Threads |-> {0}]
    /\ lastCall = NoCall

----------------------------------------------------------------------------
(* Specification of the GPU side *)

InitGpu ==
    /\ device_name \in DeviceNames
    /\ vendor_id \in VendorIds
    /\ device_id \in DeviceIds
    /\ gpc = {}
    /\ adreno740 = FALSE
    /\ has_turnip = FALSE
    /\ extensions = <<>>
    /\ pipeline_cache_size = 0
    /\ descriptor_pool_sizes = NoPoolSizes
    /\ CpuIdle

NextGpu ==
    \/ DetectFamily
    \/ DetectDriver
    \/ BuildExtensions
    \/ BuildPipelineCache
    \/ BuildDescriptorPools

SpecGpu == InitGpu /\ [][NextGpu]_vars

----------------------------------------------------------------------------
(* Properties of the CPU side, checked under Spec *)

Initialized == g_topology.total_cores # 0

\* a role call has just been made in this step
RoleCallStep == lastCall' # lastCall

\* the model strings of SocModels that contain "SM8550" or "kalama", written out
ExpectedModels ==
    { <<"S","M","8","5","5","0">>,
      <<"q","c","-","k","a","l","a","m","a","-","v","2">> }

\* the manufacturer strings of SocManufacturers that contain "Qualcomm" or "QTI"
ExpectedManufacturers ==
    { <<"Q","u","a","l","c","o","m","m"," ","I","n","c">>,
      <<"Q","T","I">> }

NoClusterDefined(topo) ==
    /\ topo.prime_core = -1
    /\ topo.gold_cores_start = -1
    /\ topo.gold_cores_end = -1
    /\ topo.silver_cores_start = -1
    /\ topo.silver_cores_end = -1

\* C1: after Initialize the topology is matched iff the model string contains
\* "SM8550" or "kalama" and the manufacturer string contains "Qualcomm" or
\* "QTI" (case-sensitive); every other pair gives matched = false and no cluster.
C1_MatchIffModelAndVendor ==
    /\ Initialized =>
         (g_topology.is_snapdragon_8_gen_2
            <=> (soc_model \in ExpectedModels /\ soc_manufacturer \in ExpectedManufacturers))
    /\ ~g_topology.is_snapdragon_8_gen_2 => NoClusterDefined(g_topology)

C1_Witness ==
    /\ Initialized
    /\ g_topology.is_snapdragon_8_gen_2
    /\ soc_model = <<"q","c","-","k","a","l","a","m","a","-","v","2">>
    /\ soc_manufacturer = <<"Q","T","I">>

C1_WitnessUnmatched ==
    /\ Initialized
    /\ ~g_topology.is_snapdragon_8_gen_2
    /\ soc_model = <<"S","M","8","5","5","0">>
    /\ soc_manufacturer = <<"q","u","a","l","c","o","m","m">>

ExpectedPlan(role) ==
    CASE role = "PowerPC" -> <<1, 2, 3, 4>>
      [] role = "GPU" -> <<0, 1, 2, 3, 4>>
      [] role = "Audio" -> <<5, 6, 7>>

ExpectedCores(role) ==
    CASE role = "PowerPC" -> {1, 2, 3, 4}
      [] role = "GPU" -> {0, 1, 2, 3, 4}
      [] role = "Audio" -> {5, 6, 7}

\* C2: on a matched topology Prime = [0,0], Gold = [1,4], Silver = [5,7]; the
\* plan of PowerPC is {1,2,3,4}, of GPU {0,1,2,3,4}, of Audio {5,6,7}; with 8
\* reported cores that is exactly the set each role function submits to the OS.
C2_ClustersAndPlans ==
    [][ /\ g_topology'.is_snapdragon_8_gen_2 =>
             /\ g_topology'.prime_core = 0
             /\ g_topology'.gold_cores_start = 1 /\ g_topology'.gold_cores_end = 4
             /\ g_topology'.silver_cores_start = 5 /\ g_topology'.silver_cores_end = 7
        /\ (RoleCallStep /\ g_topology.is_snapdragon_8_gen_2
              /\ lastCall'.role # "Generic") =>
             /\ lastCall'.entered
             /\ lastCall'.plan = ExpectedPlan(lastCall'.role)
             /\ SeqToSet(lastCall'.plan) = ExpectedCores(lastCall'.role)
             /\ g_topology.total_cores = 8 =>
                  /\ Len(lastCall'.requests) = 1
                  /\ lastCall'.requests[1].cpuset = ExpectedCores(lastCall'.role)
      ]_vars

C2_Witness ==
    /\ g_topology.is_snapdragon_8_gen_2
    /\ g_topology.total_cores = 8
    /\ lastCall.role = "GPU"
    /\ lastCall.entered
    /\ lastCall.ret
    /\ affinity[lastCall.caller] = {0, 1, 2, 3, 4}

\* C3: no OS affinity request is issued when the plan is empty: a call for role
\* Generic (any topology) and a call for PowerPC, GPU or Audio on an unmatched
\* topology (also before Initialize) have an empty plan, issue no request and
\* change no mask; applying an empty plan returns false without calling the OS.
C3_EmptyPlanNoOsCall ==
    [][ /\ (RoleCallStep /\ (lastCall'.role = "Generic" \/ ~g_topology.is_snapdragon_8_gen_2)) =>
             /\ lastCall'.plan = <<>>
             /\ lastCall'.requests = <<>>
             /\ ~lastCall'.ret
             /\ affinity' = affinity
        /\ lastCall'.plan = <<>> => (lastCall'.requests = <<>> /\ ~lastCall'.ret)
        /\ \A t \in Threads : \A permitted \in BOOLEAN :
             LET a == SetThreadAffinityToCores(<<>>, t, affinity, permitted)
             IN  a.requests = <<>> /\ ~a.ret /\ a.affinity = affinity
      ]_vars

C3_Witness ==
    /\ g_topology.is_snapdragon_8_gen_2
    /\ lastCall.role = "Generic"
    /\ lastCall.requests = <<>>

C3_WitnessBeforeInitialize ==
    /\ ~Initialized
    /\ lastCall.role = "Audio"
    /\ lastCall.requests = <<>>

\* C7: an affinity-apply call changes the scheduling state of the calling
\* thread only: the request names the calling thread and no call alters the
\* mask of another thread.
C7_OnlyCallingThread ==
    [][ RoleCallStep =>
          /\ \A k \in 1..Len(lastCall'.requests) :
               lastCall'.requests[k].pid \in {0, Tid(lastCall'.caller)}
          /\ \A u \in Threads :
               affinity'[u] # affinity[u] => u = lastCall'.caller
      ]_vars

\* C8: for a non-empty plan apply returns true exactly when the OS call
\* succeeds; a failed call is not retried (one request per apply), leaves
\* every mask as it was, returns normally and leaves the topology unchanged.
C8_ReturnsOsResultNoRetry ==
    [][ (RoleCallStep /\ lastCall'.entered /\ lastCall'.plan # <<>>) =>
          /\ Len(lastCall'.requests) = 1
          /\ Len(lastCall'.errnos) = 1
          /\ lastCall'.ret <=> (lastCall'.errnos[1] = "OK")
          /\ ~lastCall'.ret => affinity' = affinity
          /\ g_topology' = g_topology
      ]_vars

C8_Witness ==
    /\ lastCall.entered
    /\ lastCall.plan # <<>>
    /\ lastCall.errnos = <<"EPERM">>
    /\ ~lastCall.ret

\* the clusters g_topology defines, as inclusive core ranges
Clusters(topo) ==
    (IF topo.prime_core # -1
       THEN {[role |-> "Prime", first |-> topo.prime_core, last |-> topo.prime_core]}
       ELSE {})
    \cup (IF topo.gold_cores_start # -1 \/ topo.gold_cores_end # -1
            THEN {[role |-> "Gold", first |-> topo.gold_cores_start,
                   last |-> topo.gold_cores_end]}
            ELSE {})
    \cup (IF topo.silver_cores_start # -1 \/ topo.silver_cores_end # -1
            THEN {[role |-> "Silver", first |-> topo.silver_cores_start,
                   last |-> topo.silver_cores_end]}
            ELSE {})

ClustersDisjointNonNegative(topo) ==
    /\ \A c \in Clusters(topo) : 0 <= c.first /\ c.first <= c.last
    /\ \A c, d \in Clusters(topo) :
         c # d => (c.first..c.last) \cap (d.first..d.last) = {}

\* C9 as stated: in every reachable state the cluster ranges are mutually
\* disjoint, non-negative and contained in [0, total_cores), and matched =
\* false implies that no cluster is defined.
C9_RangesWithinTotalCores ==
    /\ ClustersDisjointNonNegative(g_topology)
    /\ \A c \in Clusters(g_topology) : c.last < g_topology.total_cores
    /\ ~g_topology.is_snapdragon_8_gen_2 => Clusters(g_topology) = {}

\* C9 amended: in every reachable state the cluster ranges are mutually
\* disjoint, non-negative and contained in [0, 8); they are contained in
\* [0, total_cores) whenever the OS reports at least 8 cores; matched = false
\* implies that no cluster is defined.
C9_RangesWithinReferenceLayout ==
    /\ ClustersDisjointNonNegative(g_topology)
    /\ \A c \in Clusters(g_topology) :
         /\ c.last < 8
         /\ g_topology.total_cores >= 8 => c.last < g_topology.total_cores
    /\ ~g_topology.is_snapdragon_8_gen_2 => Clusters(g_topology) = {}

C9_Witness ==
    /\ g_topology.is_snapdragon_8_gen_2
    /\ g_topology.total_cores = 6
    /\ Cardinality(Clusters(g_topology)) = 3

\* C10: for a non-empty plan the mask submitted to the OS is exactly the set of
\* plan indices in [0, total_cores), and out-of-range indices in the plan (some
\* or all of them) never make the apply call fail: the OS never rejects the mask.
C10_DroppedIndicesNeverFail ==
    (lastCall.entered /\ lastCall.plan # <<>>) =>
       /\ \A k \in 1..Len(lastCall.requests) :
            lastCall.requests[k].cpuset =
               {c \in SeqToSet(lastCall.plan) : 0 <= c /\ c < g_topology.total_cores}
       /\ \A k \in 1..Len(lastCall.errnos) : lastCall.errnos[k] # "EINVAL"

----------------------------------------------------------------------------
(* Properties of the GPU side, checked under SpecGpu *)

\* the names of DeviceNames that contain "Adreno (TM) 740" or "Adreno 740"
ExpectedAdrenoNames ==
    { <<"A","d","r","e","n","o"," ","(","T","M",")"," ","7","4","0">>,
      <<"A","d","r","e","n","o"," ","7","4","0">>,
      <<"T","u","r","n","i","p"," ","A","d","r","e","n","o"," ","(","T","M",")"," ","7","4","0">>,
      <<"A","d","r","e","n","o"," ","7","4","0"," ","(","t","u","r","n","i","p",")">>,
      <<"m","e","s","a"," ","A","d","r","e","n","o"," ","7","4","0">> }

\* the names of DeviceNames that contain "turnip", "Turnip" or "Mesa"
ExpectedTurnipNames ==
    { <<"T","u","r","n","i","p"," ","A","d","r","e","n","o"," ","(","T","M",")"," ","7","4","0">>,
      <<"A","d","r","e","n","o"," ","7","4","0"," ","(","t","u","r","n","i","p",")">>,
      <<"M","e","s","a"," ","2","3">> }

\* C4: the family is Adreno740 iff vendor_id = 0x5143 and (device_id is
\* 0x43050A01 or 0x43051401, or the name is non-null and contains
\* "Adreno (TM) 740" or "Adreno 740"); a null name is no name match.
C4_FamilyIffVendorAndIdOrName ==
    "family" \in gpc =>
       (adreno740 <=>
          /\ vendor_id = 20803
          /\ \/ device_id \in {1124403713, 1124406273}
             \/ (~device_name.isNull /\ device_name.chars \in ExpectedAdrenoNames))

C4_Witness ==
    /\ "family" \in gpc
    /\ adreno740
    /\ device_id \notin {1124403713, 1124406273}

C4_WitnessIdPathNullName ==
    /\ "family" \in gpc
    /\ adreno740
    /\ device_name.isNull

\* C5: the driver is Turnip iff the name is non-null and contains "turnip",
\* "Turnip" or "Mesa", whatever vendor_id, device_id and the family are; a null
\* name gives a non-Turnip driver and, with a non-matching device_id, family
\* Unknown.
C5_DriverFromNameOnly ==
    /\ "driver" \in gpc =>
         (has_turnip <=> (~device_name.isNull /\ device_name.chars \in ExpectedTurnipNames))
    /\ ("family" \in gpc /\ device_name.isNull
          /\ device_id \notin {1124403713, 1124406273}) => ~adreno740

C5_Witness ==
    /\ {"driver", "family"} \subseteq gpc
    /\ has_turnip
    /\ ~adreno740
    /\ device_name.chars = <<"M","e","s","a"," ","2","3">>
    /\ vendor_id # 20803

C5_WitnessNull ==
    /\ {"driver", "family"} \subseteq gpc
    /\ device_name.isNull
    /\ ~has_turnip
    /\ ~adreno740
    /\ vendor_id = 20803

ReferenceExtensions ==
    << "VK_KHR_shader_non_semantic_info",
       "VK_EXT_scalar_block_layout",
       "VK_KHR_spirv_1_4",
       "VK_KHR_synchronization_2",
       "VK_EXT_memory_budget",
       "VK_EXT_memory_priority" >>

NoDuplicates(s) == \A i, j \in 1..Len(s) : s[i] = s[j] => i = j

\* C6: the policy is the same fixed value for every driver classification:
\* the extension sequence built with has_turnip true or false is the same
\* duplicate-free sequence, max_sets = 16384 and the pipeline cache size is
\* 512*1024*1024, also when the family was recognized through the name.
C6_PolicyIndependentOfDriver ==
    /\ "extensions" \in gpc =>
         (extensions = ReferenceExtensions /\ NoDuplicates(extensions))
    /\ "pools" \in gpc => descriptor_pool_sizes.max_sets = 16384
    /\ "cache" \in gpc => pipeline_cache_size = 536870912

C6_Witness ==
    /\ gpc = {"family", "driver", "extensions", "cache", "pools"}
    /\ adreno740
    /\ has_turnip
    /\ device_id \notin {1124403713, 1124406273}

====
